---- MODULE Spec2Model ----
(***************************************************************************)
(* libniftyprefs: the class registry (src/src/class.c), the object         *)
(* registry and the conversion entry points (src/src/obj.c), and the       *)
(* earlier slot storage of src/src/niftyprefs.c.                           *)
(*                                                                         *)
(* Strings are sequences of character codes.  A pointer to an array        *)
(* element is the index of its slot, NoSlot is the null element pointer.   *)
(* An NftArray is a record: arraysize is its capacity, elements maps each  *)
(* occupied slot to its payload; a slot of 0..arraysize-1 outside          *)
(* DOMAIN elements is free and its payload is all zero.                    *)
(***************************************************************************)
EXTENDS Integers, Sequences, FiniteSets, TLC

\* ------------------------------------------------------------ constants
NFT_PREFS_MAX_CLASSNAME == 64
NFT_ARRAY_DEFAULT_INC == 64
NULL == 0
NoSlot == 0 - 1
NFT_SUCCESS == TRUE
NFT_FAILURE == FALSE

\* ------------------------------------------------------------ bounds
\* class slots ever allocated in one context
MaxClassSlots == 2
\* nodes allocated at once
MaxNodes == 4
\* object handles alive at once while the host program converts
MaxConvHandles == 3
\* object handles alive at once in one context
MaxObjHandles == 2
\* documents allocated at once
MaxDocs == 2
\* blocks of slots a list of niftyprefs.c may grow to
MaxBlocks == 2
\* how far below zero a size_t counter of niftyprefs.c is followed
MaxUnderflow == 1

\* ------------------------------------------------------------ inputs
Str(ch, n) == [i \in 1..n |-> ch]
NameEmpty == << >>
NameA == <<1>>
NameMax == Str(3, NFT_PREFS_MAX_CLASSNAME)
NameLong == Str(3, NFT_PREFS_MAX_CLASSNAME + 1)
ClassNames == {NameEmpty, NameA, NameMax, NameLong}
\* object pointers a caller may pass (NULL included)
ObjPtrs == {NULL, 1, 2}
\* <<toObj, fromObj>> callback pointers a caller may pass (NULL included)
Callbacks == {<<1, 2>>, <<1, NULL>>, <<NULL, 2>>}
\* the inputs of the calls into niftyprefs.c
NpClassNames == {NameEmpty, NameA, NameLong}
NpObjPtrs == {NULL, 1}
NpCallbacks == {<<1, 2>>}

VARIABLES
    classes,    \* NftArray of NftPrefsClass owned by the context
    last,       \* the API call that ran last: its result, the message it
                \* logged, whether it invoked a callback
    crashed,    \* "" or the invalid memory access that ended the process
    np,         \* the NftPrefs context of niftyprefs.c
    conv        \* the node tree and the objects of the host program

vars == <<classes, last, crashed, np, conv>>

\* ------------------------------------------------------------ C library
Min(S) == CHOOSE x \in S : \A y \in S : x <= y

\* strncpy(dst, src, n) into a zeroed dst of n+1 bytes, read back as a string
strncpy(src, n) == SubSeq(src, 1, IF Len(src) < n THEN Len(src) ELSE n)

\* strcmp(a, b) == 0
strcmp0(a, b) == a = b

\* ------------------------------------------------------------ NftArray
ZeroArray == [arraysize |-> 0, elements |-> << >>]

ZeroObj == [object |-> NULL, klass |-> NoSlot, slot |-> 0]

ZeroClass == [name |-> << >>, toObj |-> NULL, fromObj |-> NULL,
              objects |-> ZeroArray]

nft_array_init == ZeroArray

nft_array_deinit(a) == ZeroArray

Occupied(a) == DOMAIN a.elements

\* payload of slot s, occupied or free
Element(a, s, zero) == IF s \in Occupied(a) THEN a.elements[s] ELSE zero

nft_array_slot_alloc(a, zero) ==
    LET g == IF a.arraysize <= Cardinality(Occupied(a))
             THEN [a EXCEPT !.arraysize = @ + NFT_ARRAY_DEFAULT_INC]
             ELSE a
        s == Min({i \in 0..(g.arraysize - 1) : i \notin Occupied(g)})
    IN  [a |-> [g EXCEPT !.elements =
                   [i \in Occupied(g) \cup {s} |->
                       IF i = s THEN zero ELSE g.elements[i]]],
         s |-> s]

nft_array_slot_free(a, s) ==
    IF s \in Occupied(a)
    THEN [a EXCEPT !.elements = [i \in Occupied(a) \ {s} |-> a.elements[i]]]
    ELSE a

nft_array_get_element(a, s) ==
    IF s >= 0 /\ s < a.arraysize THEN s ELSE NoSlot

\* first occupied slot the finder accepts
nft_array_find_slot(a, finder) ==
    LET hits == {i \in Occupied(a) : finder[i]}
    IN  IF hits = {} THEN [found |-> FALSE, slot |-> NoSlot]
        ELSE [found |-> TRUE, slot |-> Min(hits)]

\* ------------------------------------------------------------ obj.c
_obj_find_by_ptr(element, criterion) ==
    IF criterion = NULL THEN TRUE ELSE element.object = criterion

prefs_obj_init_array == nft_array_init

\* prefs_class_objects(c): NULL for a null class
HasObjects(cl, c) == c # NoSlot /\ c \in Occupied(cl)

\* prefs_obj_free that drops the object's handles in every class
prefs_obj_free_everywhere(cl, c, o) ==
    LET obj == Element(cl.elements[c].objects, o, ZeroObj).object
    IN  [cl EXCEPT !.elements =
            [k \in Occupied(cl) |->
                [cl.elements[k] EXCEPT !.objects.elements =
                    [i \in {j \in Occupied(cl.elements[k].objects) :
                                cl.elements[k].objects.elements[j].object # obj}
                        |-> cl.elements[k].objects.elements[i]]]]]

\* obj is the element at slot o of the object array of class c
prefs_obj_free(cl, c, o) ==
    LET e == Element(cl.elements[c].objects, o, ZeroObj)
        freed == IF HasObjects(cl, e.klass)
                 THEN [cl EXCEPT !.elements[e.klass].objects =
                          nft_array_slot_free(@, e.slot)]
                 ELSE cl
    IN  IF o \in Occupied(freed.elements[c].objects)
        THEN [freed EXCEPT !.elements[c].objects.elements[o].object = NULL,
                           !.elements[c].objects.elements[o].klass = NoSlot]
        ELSE freed

\* uninit is the value the uninitialised local 'slot' happens to hold
prefs_obj_find_by_ptr(cl, c, obj, uninit) ==
    IF ~HasObjects(cl, c) THEN NoSlot
    ELSE LET array == cl.elements[c].objects
             r == nft_array_find_slot(array, [i \in Occupied(array) |-> _obj_find_by_ptr(array.elements[i], obj)])
         IN  IF r.found THEN NoSlot
             ELSE nft_array_get_element(array, uninit)

\* ------------------------------------------------------------ class.c
_class_find_by_name(element, criterion) == strcmp0(element.name, criterion)

prefs_class_find_by_name(cl, name) ==
    LET r == nft_array_find_slot(cl, [i \in Occupied(cl) |-> _class_find_by_name(cl.elements[i], name)])
    IN  IF ~r.found THEN NoSlot ELSE nft_array_get_element(cl, r.slot)

RECURSIVE foreach_obj_free(_, _, _)
\* nft_array_foreach_element(&klass->objects, _obj_free, &count) from slot i
foreach_obj_free(cl, k, i) ==
    IF i >= cl.elements[k].objects.arraysize THEN cl
    ELSE foreach_obj_free(
             IF i \in Occupied(cl.elements[k].objects)
             THEN prefs_obj_free(cl, k, i) ELSE cl,
             k, i + 1)

prefs_class_free(cl, k) ==
    IF k = NoSlot THEN cl
    ELSE LET f == foreach_obj_free(cl, k, 0)
         IN  [f EXCEPT !.elements[k].objects = nft_array_deinit(@),
                       !.elements[k].name = << >>,
                       !.elements[k].fromObj = NULL,
                       !.elements[k].toObj = NULL]

\* the part of nft_prefs_class_register after its argument checks
class_register_new(cl, className, toObj, fromObj, initOk) ==
    LET al == nft_array_slot_alloc(cl, ZeroClass)
        n == nft_array_get_element(al.a, al.s)
        named == [name |-> strncpy(className, NFT_PREFS_MAX_CLASSNAME),
                  toObj |-> toObj, fromObj |-> fromObj,
                  objects |-> ZeroArray]
    IN  IF n = NoSlot
        THEN [classes |-> nft_array_slot_free(al.a, al.s),
              ret |-> NFT_FAILURE, log |-> "Failed to get element from array"]
        ELSE IF ~initOk
        THEN [classes |-> nft_array_slot_free(
                              [al.a EXCEPT !.elements[n] = named], al.s),
              ret |-> NFT_FAILURE, log |-> "Failed to initialize object array"]
        ELSE [classes |-> [al.a EXCEPT !.elements[n] =
                              [named EXCEPT !.objects = prefs_obj_init_array]],
              ret |-> NFT_SUCCESS, log |-> ""]

\* nft_prefs_class_register that keeps the slot when prefs_obj_init_array()
\* fails
nft_prefs_class_register_keepslot(cl, className, toObj, fromObj, initOk) ==
    LET r == class_register_new(cl, className, toObj, fromObj, TRUE)
    IN  IF Len(className) = 0
        THEN [classes |-> cl, ret |-> NFT_FAILURE,
              log |-> "class name may not be empty"]
        ELSE IF prefs_class_find_by_name(cl, className) # NoSlot
        THEN [classes |-> cl, ret |-> NFT_FAILURE, log |-> "already registered"]
        ELSE IF initOk THEN r
        ELSE [r EXCEPT !.ret = NFT_FAILURE,
                       !.log = "Failed to initialize object array"]

\* nft_prefs_class_register without its check for an empty name
nft_prefs_class_register_noempty(cl, className, toObj, fromObj, initOk) ==
    IF prefs_class_find_by_name(cl, className) # NoSlot
    THEN [classes |-> cl, ret |-> NFT_FAILURE, log |-> "already registered"]
    ELSE class_register_new(cl, className, toObj, fromObj, initOk)

\* nft_prefs_class_register without its check for a registered name
nft_prefs_class_register_nocheck(cl, className, toObj, fromObj, initOk) ==
    IF Len(className) = 0
    THEN [classes |-> cl, ret |-> NFT_FAILURE,
          log |-> "class name may not be empty"]
    ELSE class_register_new(cl, className, toObj, fromObj, initOk)

\* initOk: prefs_obj_init_array() succeeds
nft_prefs_class_register(cl, className, toObj, fromObj, initOk) ==
    IF Len(className) = 0
    THEN [classes |-> cl, ret |-> NFT_FAILURE,
          log |-> "class name may not be empty"]
    ELSE IF prefs_class_find_by_name(cl, className) # NoSlot
    THEN [classes |-> cl, ret |-> NFT_FAILURE, log |-> "already registered"]
    ELSE class_register_new(cl, className, toObj, fromObj, initOk)

nft_prefs_class_unregister(cl, className) ==
    LET klass == prefs_class_find_by_name(cl, className)
    IN  IF klass = NoSlot
        THEN [classes |-> cl,
              log |-> "tried to unregister class that is not registered"]
        ELSE [classes |-> prefs_class_free(cl, klass),
              log |-> IF Occupied(cl.elements[klass].objects) # {}
                      THEN "Deallocated stale object(s)" ELSE ""]

\* ------------------------------------------------------------ obj.c API
\* the part of nft_prefs_obj_register after the class was found at c
obj_register_new(cl, c, obj) ==
    LET al == nft_array_slot_alloc(cl.elements[c].objects, ZeroObj)
        o == nft_array_get_element(al.a, al.s)
    IN  IF o = NoSlot
        THEN [classes |-> [cl EXCEPT !.elements[c].objects =
                              nft_array_slot_free(al.a, al.s)],
              ret |-> NFT_FAILURE, log |-> "Failed to get element from array"]
        ELSE [classes |-> [cl EXCEPT !.elements[c].objects =
                              [al.a EXCEPT !.elements[o] =
                                  [object |-> obj, klass |-> c, slot |-> al.s]]],
              ret |-> NFT_SUCCESS, log |-> ""]

\* nft_prefs_obj_register without its check for a null object
nft_prefs_obj_register_nonull(cl, className, obj) ==
    LET c == prefs_class_find_by_name(cl, className)
    IN  IF c = NoSlot
        THEN [classes |-> cl, ret |-> NFT_FAILURE, log |-> "Unknown class"]
        ELSE obj_register_new(cl, c, obj)

\* nft_prefs_obj_register that leaves o->slot unset
nft_prefs_obj_register_noslot(cl, className, obj) ==
    IF obj = NULL THEN [classes |-> cl, ret |-> NFT_FAILURE, log |-> "NULL"]
    ELSE LET c == prefs_class_find_by_name(cl, className)
             r == obj_register_new(cl, c, obj)
             was == Occupied(cl.elements[c].objects)
             now == r.classes.elements[c].objects.elements
         IN  IF c = NoSlot
             THEN [classes |-> cl, ret |-> NFT_FAILURE, log |-> "Unknown class"]
             ELSE [r EXCEPT !.classes.elements[c].objects.elements =
                      [o \in DOMAIN now |->
                          IF o \in was THEN now[o]
                          ELSE [object |-> obj, klass |-> c, slot |-> 0]]]

\* nft_prefs_obj_register that leaves o->object unset
nft_prefs_obj_register_noptr(cl, className, obj) ==
    IF obj = NULL THEN [classes |-> cl, ret |-> NFT_FAILURE, log |-> "NULL"]
    ELSE LET c == prefs_class_find_by_name(cl, className)
         IN  IF c = NoSlot
             THEN [classes |-> cl, ret |-> NFT_FAILURE, log |-> "Unknown class"]
             ELSE obj_register_new(cl, c, NULL)

nft_prefs_obj_register(cl, className, obj) ==
    IF obj = NULL THEN [classes |-> cl, ret |-> NFT_FAILURE, log |-> "NULL"]
    ELSE LET c == prefs_class_find_by_name(cl, className)
         IN  IF c = NoSlot
             THEN [classes |-> cl, ret |-> NFT_FAILURE, log |-> "Unknown class"]
             ELSE obj_register_new(cl, c, obj)

nft_prefs_obj_unregister(cl, className, obj, uninit) ==
    IF obj = NULL THEN [classes |-> cl, log |-> ""]
    ELSE LET c == prefs_class_find_by_name(cl, className)
             o == prefs_obj_find_by_ptr(cl, c, obj, uninit)
         IN  IF o = NoSlot
             THEN [classes |-> cl, log |-> "Object not found in class"]
             ELSE [classes |-> prefs_obj_free(cl, c, o), log |-> ""]

\* values the uninitialised 'slot' of prefs_obj_find_by_ptr may hold: every
\* occupied index, the first free index for any free one (free slots are all
\* zero), and arraysize for any index outside the array
UninitSlots(cl, className) ==
    LET c == prefs_class_find_by_name(cl, className)
    IN  IF ~HasObjects(cl, c) THEN {0}
        ELSE LET a == cl.elements[c].objects
                 free == {i \in 0..(a.arraysize - 1) : i \notin Occupied(a)}
             IN  Occupied(a) \cup {a.arraysize}
                     \cup (IF free = {} THEN {} ELSE {Min(free)})

\* the from-object callback returns cbRet
nft_prefs_obj_to_node(cl, className, obj, cbRet) ==
    IF obj = NULL
    THEN [classes |-> cl, ret |-> NULL, log |-> "NULL", cb |-> FALSE,
          crash |-> ""]
    ELSE LET c == prefs_class_find_by_name(cl, className)
         IN  IF c = NoSlot
             THEN [classes |-> cl, ret |-> NULL, log |-> "", cb |-> FALSE,
                   crash |-> "prefs_class_fromObj(NULL)"]
             ELSE IF cl.elements[c].fromObj = NULL
             THEN [classes |-> cl, ret |-> NULL, log |-> "", cb |-> FALSE,
                   crash |-> "call of NULL fromObj"]
             ELSE IF ~cbRet
             THEN [classes |-> cl, ret |-> NULL, log |-> "", cb |-> TRUE,
                   crash |-> ""]
             ELSE [classes |-> cl, ret |-> 1, log |-> "", cb |-> TRUE,
                   crash |-> ""]

\* nft_prefs_obj_from_node that does not register the object it returns
nft_prefs_obj_from_node_noreg(cl, name, cbRet, cbObj) ==
    LET c == prefs_class_find_by_name(cl, name)
    IN  IF c = NoSlot
        THEN [classes |-> cl, ret |-> NULL, log |-> "", cb |-> FALSE,
              crash |-> "prefs_class_toObj(NULL)"]
        ELSE IF cl.elements[c].toObj = NULL
        THEN [classes |-> cl, ret |-> NULL, log |-> "", cb |-> FALSE,
              crash |-> "call of NULL toObj"]
        ELSE [classes |-> cl, ret |-> cbObj,
              log |-> IF ~cbRet THEN "toObj() function failed" ELSE "",
              cb |-> TRUE, crash |-> ""]

\* name is the node's tag; the to-object callback returns cbRet after
\* storing cbObj into *newObj
nft_prefs_obj_from_node(cl, name, cbRet, cbObj) ==
    LET c == prefs_class_find_by_name(cl, name)
    IN  IF c = NoSlot
        THEN [classes |-> cl, ret |-> NULL, log |-> "", cb |-> FALSE,
              crash |-> "prefs_class_toObj(NULL)"]
        ELSE IF cl.elements[c].toObj = NULL
        THEN [classes |-> cl, ret |-> NULL, log |-> "", cb |-> FALSE,
              crash |-> "call of NULL toObj"]
        ELSE LET r == nft_prefs_obj_register(cl, name, cbObj)
             IN  [classes |-> r.classes, ret |-> cbObj,
                  log |-> IF ~r.ret THEN "Failed to register new object"
                          ELSE IF ~cbRet THEN "toObj() function failed"
                          ELSE "",
                  cb |-> TRUE, crash |-> ""]

\* ------------------------------------------------------------ niftyprefs.c
\* The context keeps its classes and its object descriptors in two lists of
\* its own.  A slot whose name is empty is free; classes and objects map the
\* slots in use to their payload.  class_list_length = 0 stands for
\* p->classes == NULL.  A size_t counter is kept as its two's complement
\* reading, so that -1 is SIZE_MAX, and compared unsigned.
NFT_PREFS_CLASSBUF_INC == 64
NFT_PREFS_OBJBUF_INC == 64

ULess(a, b) == IF (a >= 0) = (b >= 0) THEN a < b ELSE b < 0

ULessEq(a, b) == a = b \/ ULess(a, b)

nft_prefs_init ==
    [classes |-> << >>, class_count |-> 0, class_list_length |-> 0,
     objects |-> << >>, obj_count |-> 0, obj_list_length |-> 0,
     doc_frees |-> 0, class_frees |-> {}, exited |-> FALSE]

np_class_name(p, i) == IF i \in DOMAIN p.classes THEN p.classes[i].name ELSE << >>

np_obj_className(p, i) ==
    IF i \in DOMAIN p.objects THEN p.objects[i].className ELSE << >>

np_class_find_free(p) ==
    LET g == IF ULessEq(p.class_list_length, p.class_count)
             THEN [p EXCEPT !.class_list_length = @ + NFT_PREFS_CLASSBUF_INC]
             ELSE p
        free == {i \in 0..(g.class_list_length - 1) : np_class_name(g, i) = << >>}
    IN  [p |-> g, n |-> IF free = {} THEN NoSlot ELSE Min(free)]

np_obj_find_free(p) ==
    LET g == IF ULessEq(p.obj_list_length, p.obj_count)
             THEN [p EXCEPT !.obj_list_length = @ + NFT_PREFS_OBJBUF_INC]
             ELSE p
        free == {i \in 0..(g.obj_list_length - 1) : i \notin DOMAIN g.objects}
    IN  [p |-> g, n |-> IF free = {} THEN NoSlot ELSE Min(free)]

np_class_find_by_name(p, className) ==
    LET hits == {i \in 0..(p.class_list_length - 1) :
                    strcmp0(np_class_name(p, i), className)}
    IN  IF hits = {} THEN NoSlot ELSE Min(hits)

np_obj_find_by_ptr(p, obj) ==
    LET hits == {i \in DOMAIN p.objects : p.objects[i].object = obj}
    IN  IF obj = NULL \/ hits = {} THEN NoSlot ELSE Min(hits)

\* memset of the descriptors in slots S, obj_count-- for each
np_obj_clear(p, S) ==
    [p EXCEPT !.objects = [i \in DOMAIN p.objects \ S |-> p.objects[i]],
              !.obj_count = @ - Cardinality(S)]

np_prefs_class_free(p, i) ==
    [p EXCEPT !.classes = [j \in DOMAIN p.classes \ {i} |-> p.classes[j]],
              !.class_frees = @ \cup {i}]

RECURSIVE np_exit_classes(_, _)
\* for(i = 0; i < p->class_count; i++) prefs_class_free(&p->classes[i]) from i
np_exit_classes(p, i) ==
    IF ~ULess(i, p.class_count) THEN p
    ELSE np_exit_classes(np_prefs_class_free(p, i), i + 1)

\* noticed: the allocator detects the second xmlFreeDoc(p->doc)
np_nft_prefs_exit(p, noticed) ==
    LET d == [p EXCEPT !.doc_frees = @ + 1]
    IN  IF d.class_list_length # 0 /\ ULess(d.class_list_length, d.class_count)
        THEN [p |-> d, crash |-> "prefs_class_free() beyond p->classes"]
        ELSE LET c == IF d.class_list_length # 0 THEN np_exit_classes(d, 0)
                      ELSE d
                 e == [c EXCEPT !.doc_frees = @ + 1]
             IN  IF noticed THEN [p |-> e, crash |-> "double free of p->doc"]
                 ELSE [p |-> [e EXCEPT !.exited = TRUE], crash |-> ""]

np_nft_prefs_class_register(p, className, toObj, fromObj) ==
    IF Len(className) = 0
    THEN [p |-> p, ret |-> NFT_FAILURE, log |-> "class name may not be empty"]
    ELSE LET f == np_class_find_free(p)
         IN  IF f.n = NoSlot
             THEN [p |-> f.p, ret |-> NFT_FAILURE,
                   log |-> "Couldn't find free slot in NftPrefsClass list"]
             ELSE [p |-> [f.p EXCEPT
                       !.classes = [i \in DOMAIN f.p.classes \cup {f.n} |->
                           IF i = f.n
                           THEN [name |-> strncpy(className,
                                                  NFT_PREFS_MAX_CLASSNAME),
                                 toObj |-> toObj, fromObj |-> fromObj]
                           ELSE f.p.classes[i]],
                       !.class_count = @ + 1],
                   ret |-> NFT_SUCCESS, log |-> ""]

np_nft_prefs_class_unregister(p, className) ==
    LET c == np_class_find_by_name(p, className)
        hit == {i \in 0..(p.obj_list_length - 1) :
                   strcmp0(np_obj_className(p, i), className)}
        o == np_obj_clear(p, hit)
    IN  IF c = NoSlot
        THEN [p |-> o, crash |-> "memset(NULL)",
              log |-> "tried to unregister class that is not registered"]
        ELSE [p |-> [o EXCEPT
                   !.classes = [j \in DOMAIN o.classes \ {c} |-> o.classes[j]],
                   !.class_count = @ - 1],
              crash |-> "", log |-> ""]

np_nft_prefs_obj_register(p, className, obj) ==
    IF obj = NULL THEN [p |-> p, ret |-> NFT_FAILURE, log |-> "NULL"]
    ELSE IF np_class_find_by_name(p, className) = NoSlot
    THEN [p |-> p, ret |-> NFT_FAILURE, log |-> "Unknown class"]
    ELSE LET f == np_obj_find_free(p)
         IN  IF f.n = NoSlot
             THEN [p |-> f.p, ret |-> NFT_FAILURE,
                   log |-> "Couldn't find free slot in NftPrefsObj list"]
             ELSE [p |-> [f.p EXCEPT
                       !.objects = [i \in DOMAIN f.p.objects \cup {f.n} |->
                           IF i = f.n
                           THEN [object |-> obj,
                                 className |-> strncpy(className,
                                                  NFT_PREFS_MAX_CLASSNAME)]
                           ELSE f.p.objects[i]],
                       !.obj_count = @ + 1],
                   ret |-> NFT_SUCCESS, log |-> ""]

np_nft_prefs_obj_unregister(p, obj) ==
    LET n == np_obj_find_by_ptr(p, obj)
    IN  IF n = NoSlot THEN p ELSE np_obj_clear(p, {n})

\* ------------------------------------------------------------ nodes
\* The tree of preference nodes.  nodes maps the id of every allocated node
\* to its tag, its attributes (strings by attribute name), its children in
\* document order and its parent (NULL for a root).
NoProps == [k \in {} |-> << >>]

xmlNewNode(nodes, name) ==
    LET n == Min({i \in 1..(Cardinality(DOMAIN nodes) + 1) : i \notin DOMAIN nodes})
    IN  [nodes |-> [i \in DOMAIN nodes \cup {n} |->
                       IF i = n
                       THEN [name |-> name, props |-> NoProps,
                             children |-> << >>, parent |-> NULL]
                       ELSE nodes[i]],
         node |-> n]

nft_prefs_node_add_child(nodes, parent, cur) ==
    [nodes EXCEPT ![parent].children = Append(@, cur), ![cur].parent = parent]

nft_prefs_node_get_first_child(nodes, n) ==
    IF nodes[n].children = << >> THEN NULL ELSE Head(nodes[n].children)

nft_prefs_node_get_next(nodes, n) ==
    LET p == nodes[n].parent
    IN  IF p = NULL THEN NULL
        ELSE LET sib == nodes[p].children
                 k == CHOOSE j \in 1..Len(sib) : sib[j] = n
             IN  IF k < Len(sib) THEN sib[k + 1] ELSE NULL

RECURSIVE Subtree(_, _)
\* n and the nodes below it
Subtree(nodes, n) ==
    {n} \cup UNION {Subtree(nodes, nodes[n].children[j]) :
                        j \in 1..Len(nodes[n].children)}

\* unlinks n from its parent and releases n and the nodes below it
nft_prefs_node_free(nodes, n) ==
    LET gone == Subtree(nodes, n)
        p == nodes[n].parent
    IN  [i \in DOMAIN nodes \ gone |->
            IF i = p
            THEN [nodes[i] EXCEPT !.children = SelectSeq(@, LAMBDA c : c # n)]
            ELSE nodes[i]]

RECURSIVE IntToStr(_)
\* decimal digits of a non-negative int, '-' in front of a negative one
IntToStr(v) ==
    IF v < 0 THEN <<45>> \o IntToStr(0 - v)
    ELSE IF v < 10 THEN <<48 + v>>
    ELSE Append(IntToStr(v \div 10), 48 + (v % 10))

RECURSIVE DigitsToInt(_)
DigitsToInt(str) ==
    IF str = << >> THEN 0
    ELSE 10 * DigitsToInt(SubSeq(str, 1, Len(str) - 1)) + (str[Len(str)] - 48)

IsDigits(str) == str # << >> /\ \A j \in 1..Len(str) : str[j] \in 48..57

StrToInt(str) ==
    IF IsDigits(str) THEN [ok |-> TRUE, val |-> DigitsToInt(str)]
    ELSE IF str # << >> /\ str[1] = 45 /\ IsDigits(Tail(str))
    THEN [ok |-> TRUE, val |-> 0 - DigitsToInt(Tail(str))]
    ELSE [ok |-> FALSE, val |-> 0]

StrTrue == <<116, 114, 117, 101>>
StrFalse == <<102, 97, 108, 115, 101>>

nft_prefs_node_prop_string_set(nodes, n, name, value) ==
    [nodes EXCEPT ![n].props =
        [k \in DOMAIN @ \cup {name} |-> IF k = name THEN value ELSE @[k]]]

nft_prefs_node_prop_string_get(nodes, n, name) ==
    IF name \in DOMAIN nodes[n].props
    THEN [ok |-> TRUE, val |-> nodes[n].props[name]]
    ELSE [ok |-> FALSE, val |-> << >>]

nft_prefs_node_prop_int_set(nodes, n, name, val) ==
    nft_prefs_node_prop_string_set(nodes, n, name, IntToStr(val))

nft_prefs_node_prop_int_get(nodes, n, name) ==
    LET g == nft_prefs_node_prop_string_get(nodes, n, name)
    IN  IF g.ok THEN StrToInt(g.val) ELSE [ok |-> FALSE, val |-> 0]

nft_prefs_node_prop_boolean_set(nodes, n, name, val) ==
    nft_prefs_node_prop_string_set(nodes, n, name,
                                   IF val THEN StrTrue ELSE StrFalse)

nft_prefs_node_prop_boolean_get(nodes, n, name) ==
    LET g == nft_prefs_node_prop_string_get(nodes, n, name)
    IN  IF g.ok /\ g.val \in {StrTrue, StrFalse}
        THEN [ok |-> TRUE, val |-> g.val = StrTrue]
        ELSE [ok |-> FALSE, val |-> FALSE]

\* ------------------------------------------------------------ host
\* The host program of tests/prefs-to-obj.c with its classes "people" and
\* "person".  A conversion runs on a record st: classes is the class array,
\* nodes the node tree, persons, i and people the static objects the
\* to-object callbacks fill, src the persons of the list a from-object
\* callback reads, fromObjCalls counts the runs of the person from-object
\* callback, of which run number failAt fails, regs lists the objects in the
\* order they were registered, crash is "" or the invalid access that ended
\* the process.
PEOPLECOUNT == 2
PersonNameSize == 256
PEOPLE_NAME == <<112, 101, 111, 112, 108, 101>>
PERSON_NAME == <<112, 101, 114, 115, 111, 110>>

\* addresses of the callbacks
fn_people_from_prefs == 11
fn_person_from_prefs == 12
fn_people_to_prefs == 13
fn_person_to_prefs == 14

\* &persons[i], &people, and the objects of the list that is written out
PersonPtr(i) == 1 + i
PeoplePtr == 1 + PEOPLECOUNT
SrcPersonPtr(j) == PeoplePtr + j
SrcPeoplePtr == PeoplePtr + PEOPLECOUNT + 1

ZeroPerson == [name |-> << >>, email |-> << >>, age |-> 0, alive |-> FALSE]

ZeroPeople == [people |-> [k \in 0..(PEOPLECOUNT - 1) |-> NULL],
               people_count |-> 0]

\* the struct Person obj points to
PersonAt(st, obj) ==
    IF obj < PeoplePtr THEN st.persons[obj - 1] ELSE st.src[obj - PeoplePtr]

\* the persons of the struct People obj points to, in list order
PeopleList(st, obj) ==
    IF obj = PeoplePtr
    THEN [k \in 1..st.people.people_count |-> st.people.people[k - 1]]
    ELSE [k \in 1..Len(st.src) |-> SrcPersonPtr(k)]

RECURSIVE obj_to_node(_, _, _)
RECURSIVE obj_from_node(_, _)

\* from-object callback of "person": writes the four attributes
_person_to_prefs(st, node, obj) ==
    LET s1 == [st EXCEPT !.fromObjCalls = @ + 1]
        who == PersonAt(st, obj)
        n1 == nft_prefs_node_prop_string_set(s1.nodes, node, "name", who.name)
        n2 == nft_prefs_node_prop_string_set(n1, node, "email", who.email)
        n3 == nft_prefs_node_prop_int_set(n2, node, "age", who.age)
        n4 == nft_prefs_node_prop_boolean_set(n3, node, "alive", who.alive)
    IN  IF s1.fromObjCalls = s1.failAt
        THEN [st |-> s1, ret |-> NFT_FAILURE]
        ELSE [st |-> [s1 EXCEPT !.nodes = n4], ret |-> NFT_SUCCESS]

RECURSIVE people_to_prefs_from(_, _, _, _)
\* the loop of the from-object callback of "people" from list entry k on
people_to_prefs_from(st, node, list, k) ==
    IF k > Len(list) THEN [st |-> st, ret |-> NFT_SUCCESS]
    ELSE LET c == obj_to_node(st, PERSON_NAME, list[k])
         IN  IF c.st.crash # "" \/ c.ret = NULL
             THEN [st |-> c.st, ret |-> NFT_FAILURE]
             ELSE people_to_prefs_from(
                      [c.st EXCEPT !.nodes =
                          nft_prefs_node_add_child(@, node, c.ret)],
                      node, list, k + 1)

\* from-object callback of "people": one "person" child per list entry
_people_to_prefs(st, node, obj) ==
    people_to_prefs_from(st, node, PeopleList(st, obj), 1)

\* to-object callback of "person"; newObj is *newObj on return
_person_from_prefs(st, node) ==
    LET name == nft_prefs_node_prop_string_get(st.nodes, node, "name")
        email == nft_prefs_node_prop_string_get(st.nodes, node, "email")
        age == nft_prefs_node_prop_int_get(st.nodes, node, "age")
        alive == nft_prefs_node_prop_boolean_get(st.nodes, node, "alive")
    IN  IF st.i >= PEOPLECOUNT \/ ~name.ok \/ ~email.ok \/ ~age.ok \/ ~alive.ok
        THEN [st |-> st, ret |-> NFT_FAILURE, newObj |-> NULL]
        ELSE [st |-> [st EXCEPT
                      !.persons[st.i] =
                          [name |-> strncpy(name.val, PersonNameSize),
                           email |-> strncpy(email.val, PersonNameSize),
                           age |-> age.val, alive |-> alive.val],
                      !.i = @ + 1],
              ret |-> NFT_SUCCESS, newObj |-> PersonPtr(st.i)]

RECURSIVE people_from_prefs_from(_, _, _)
\* the loop of the to-object callback of "people" from node child on
people_from_prefs_from(st, child, i) ==
    IF child = NULL THEN [st |-> st, ret |-> NFT_SUCCESS]
    ELSE IF i >= PEOPLECOUNT THEN [st |-> st, ret |-> NFT_FAILURE]
    ELSE LET r == obj_from_node(st, child)
             s1 == [r.st EXCEPT !.people.people[i] = r.ret]
         IN  IF r.st.crash # "" THEN [st |-> r.st, ret |-> NFT_FAILURE]
             ELSE IF r.ret = NULL THEN [st |-> s1, ret |-> NFT_FAILURE]
             ELSE people_from_prefs_from(
                      s1, nft_prefs_node_get_next(s1.nodes, child), i + 1)

\* to-object callback of "people"; newObj is *newObj on return
_people_from_prefs(st, node) ==
    LET s1 == [st EXCEPT !.people.people_count = PEOPLECOUNT]
        r == people_from_prefs_from(
                 s1, nft_prefs_node_get_first_child(s1.nodes, node), 0)
    IN  [st |-> r.st, ret |-> r.ret,
         newObj |-> IF r.ret THEN PeoplePtr ELSE NULL]

\* prefs_class_fromObj(c)(p, node, obj, userptr)
FromObjFunc(f, st, node, obj) ==
    IF f = fn_person_to_prefs THEN _person_to_prefs(st, node, obj)
    ELSE _people_to_prefs(st, node, obj)

\* prefs_class_toObj(c)(p, &result, n, userptr)
ToObjFunc(f, st, node) ==
    IF f = fn_person_from_prefs THEN _person_from_prefs(st, node)
    ELSE _people_from_prefs(st, node)

\* ------------------------------------------------------------ conversion
\* nft_prefs_obj_to_node that returns the node although the callback failed
obj_to_node_keepnode(st, className, obj) ==
    LET c == prefs_class_find_by_name(st.classes, className)
        x == xmlNewNode(st.nodes, className)
        r == FromObjFunc(st.classes.elements[c].fromObj,
                         [st EXCEPT !.nodes = x.nodes], x.node, obj)
    IN  IF st.crash # "" \/ obj = NULL THEN [st |-> st, ret |-> NULL]
        ELSE IF c = NoSlot
        THEN [st |-> [st EXCEPT !.crash = "prefs_class_fromObj(NULL)"],
              ret |-> NULL]
        ELSE IF st.classes.elements[c].fromObj = NULL
        THEN [st |-> [st EXCEPT !.nodes = x.nodes,
                                !.crash = "call of NULL fromObj"],
              ret |-> NULL]
        ELSE IF r.st.crash # "" THEN [st |-> r.st, ret |-> NULL]
        ELSE [st |-> r.st, ret |-> x.node]

\* nft_prefs_obj_to_node that runs the callback a second time on its node
obj_to_node_twice(st, className, obj) ==
    LET c == prefs_class_find_by_name(st.classes, className)
        x == xmlNewNode(st.nodes, className)
        r1 == FromObjFunc(st.classes.elements[c].fromObj,
                          [st EXCEPT !.nodes = x.nodes], x.node, obj)
        r == FromObjFunc(st.classes.elements[c].fromObj, r1.st, x.node, obj)
    IN  IF st.crash # "" \/ obj = NULL THEN [st |-> st, ret |-> NULL]
        ELSE IF c = NoSlot
        THEN [st |-> [st EXCEPT !.crash = "prefs_class_fromObj(NULL)"],
              ret |-> NULL]
        ELSE IF st.classes.elements[c].fromObj = NULL
        THEN [st |-> [st EXCEPT !.nodes = x.nodes,
                                !.crash = "call of NULL fromObj"],
              ret |-> NULL]
        ELSE IF r.st.crash # "" \/ ~r.ret THEN [st |-> r.st, ret |-> NULL]
        ELSE [st |-> r.st, ret |-> x.node]

\* nft_prefs_obj_to_node that returns a new node, not the one it had filled
obj_to_node_newnode(st, className, obj) ==
    LET c == prefs_class_find_by_name(st.classes, className)
        x == xmlNewNode(st.nodes, className)
        r == FromObjFunc(st.classes.elements[c].fromObj,
                         [st EXCEPT !.nodes = x.nodes], x.node, obj)
        y == xmlNewNode(r.st.nodes, className)
    IN  IF st.crash # "" \/ obj = NULL THEN [st |-> st, ret |-> NULL]
        ELSE IF c = NoSlot
        THEN [st |-> [st EXCEPT !.crash = "prefs_class_fromObj(NULL)"],
              ret |-> NULL]
        ELSE IF st.classes.elements[c].fromObj = NULL
        THEN [st |-> [st EXCEPT !.nodes = x.nodes,
                                !.crash = "call of NULL fromObj"],
              ret |-> NULL]
        ELSE IF r.st.crash # "" \/ ~r.ret THEN [st |-> r.st, ret |-> NULL]
        ELSE [st |-> [r.st EXCEPT !.nodes = y.nodes], ret |-> y.node]

\* nft_prefs_obj_to_node with the node it creates and the callback it runs
obj_to_node(st, className, obj) ==
    LET c == prefs_class_find_by_name(st.classes, className)
        x == xmlNewNode(st.nodes, className)
        r == FromObjFunc(st.classes.elements[c].fromObj,
                         [st EXCEPT !.nodes = x.nodes], x.node, obj)
    IN  IF st.crash # "" \/ obj = NULL THEN [st |-> st, ret |-> NULL]
        ELSE IF c = NoSlot
        THEN [st |-> [st EXCEPT !.crash = "prefs_class_fromObj(NULL)"],
              ret |-> NULL]
        ELSE IF st.classes.elements[c].fromObj = NULL
        THEN [st |-> [st EXCEPT !.nodes = x.nodes,
                                !.crash = "call of NULL fromObj"],
              ret |-> NULL]
        ELSE IF r.st.crash # "" \/ ~r.ret THEN [st |-> r.st, ret |-> NULL]
        ELSE [st |-> r.st, ret |-> x.node]

\* nft_prefs_obj_from_node that does not register the objects it creates
obj_from_node_unregistered(st, n) ==
    LET name == st.nodes[n].name
        c == prefs_class_find_by_name(st.classes, name)
        r == ToObjFunc(st.classes.elements[c].toObj, st, n)
    IN  IF st.crash # "" THEN [st |-> st, ret |-> NULL]
        ELSE IF c = NoSlot
        THEN [st |-> [st EXCEPT !.crash = "prefs_class_toObj(NULL)"],
              ret |-> NULL]
        ELSE IF st.classes.elements[c].toObj = NULL
        THEN [st |-> [st EXCEPT !.crash = "call of NULL toObj"], ret |-> NULL]
        ELSE IF r.st.crash # "" THEN [st |-> r.st, ret |-> NULL]
        ELSE [st |-> r.st, ret |-> r.newObj]

\* nft_prefs_obj_from_node that takes the success of the callback for failure
obj_from_node_inverted(st, n) ==
    LET name == st.nodes[n].name
        c == prefs_class_find_by_name(st.classes, name)
        r == ToObjFunc(st.classes.elements[c].toObj, st, n)
        reg == nft_prefs_obj_register(r.st.classes, name, r.newObj)
    IN  IF st.crash # "" THEN [st |-> st, ret |-> NULL]
        ELSE IF c = NoSlot
        THEN [st |-> [st EXCEPT !.crash = "prefs_class_toObj(NULL)"],
              ret |-> NULL]
        ELSE IF st.classes.elements[c].toObj = NULL
        THEN [st |-> [st EXCEPT !.crash = "call of NULL toObj"], ret |-> NULL]
        ELSE IF r.st.crash # "" \/ r.ret THEN [st |-> r.st, ret |-> NULL]
        ELSE [st |-> [r.st EXCEPT
                      !.classes = reg.classes,
                      !.regs = IF reg.ret THEN Append(@, r.newObj) ELSE @],
              ret |-> r.newObj]

\* nft_prefs_obj_from_node with the node it reads and the callback it runs
obj_from_node(st, n) ==
    LET name == st.nodes[n].name
        c == prefs_class_find_by_name(st.classes, name)
        r == ToObjFunc(st.classes.elements[c].toObj, st, n)
        reg == nft_prefs_obj_register(r.st.classes, name, r.newObj)
    IN  IF st.crash # "" THEN [st |-> st, ret |-> NULL]
        ELSE IF c = NoSlot
        THEN [st |-> [st EXCEPT !.crash = "prefs_class_toObj(NULL)"],
              ret |-> NULL]
        ELSE IF st.classes.elements[c].toObj = NULL
        THEN [st |-> [st EXCEPT !.crash = "call of NULL toObj"], ret |-> NULL]
        ELSE IF r.st.crash # "" THEN [st |-> r.st, ret |-> NULL]
        ELSE [st |-> [r.st EXCEPT
                      !.classes = reg.classes,
                      !.regs = IF reg.ret THEN Append(@, r.newObj) ELSE @],
              ret |-> r.newObj]

\* ------------------------------------------------------------ host data
Bob == [name |-> <<66, 111, 98>>, email |-> <<98, 64, 120>>, age |-> 30,
        alive |-> TRUE]
Alice == [name |-> <<65, 108, 105, 99, 101>>, email |-> <<97, 64, 120>>,
          age |-> 30, alive |-> FALSE]
Carol == [name |-> <<67>>, email |-> << >>, age |-> 0 - 5, alive |-> TRUE]
\* the lists of persons the host may hold to write out
SrcLists == {<<Carol>>, <<Bob, Alice>>}

\* the attributes of a <person> element for who, as text
PersonProps(who) ==
    [k \in {"name", "email", "age", "alive"} |->
        IF k = "name" THEN who.name
        ELSE IF k = "email" THEN who.email
        ELSE IF k = "age" THEN IntToStr(who.age)
        ELSE IF who.alive THEN StrTrue ELSE StrFalse]

\* a <person> element without its "age" attribute
PropsNoAge(who) == [k \in {"name", "email", "alive"} |-> PersonProps(who)[k]]

Element0(name, props) == [name |-> name, props |-> props]

\* the documents a preference file may hold: a tag, and the child elements
Docs ==
    {[name |-> PEOPLE_NAME, kids |-> << >>],
     [name |-> PEOPLE_NAME,
      kids |-> <<Element0(PERSON_NAME, PersonProps(Bob))>>],
     [name |-> PEOPLE_NAME,
      kids |-> <<Element0(PERSON_NAME, PersonProps(Bob)),
                 Element0(PERSON_NAME, PersonProps(Alice))>>],
     [name |-> PEOPLE_NAME,
      kids |-> <<Element0(PERSON_NAME, PersonProps(Bob)),
                 Element0(PERSON_NAME, PropsNoAge(Alice))>>],
     [name |-> PEOPLE_NAME,
      kids |-> <<Element0(PERSON_NAME, PersonProps(Bob)),
                 Element0(PERSON_NAME, PersonProps(Alice)),
                 Element0(PERSON_NAME, PersonProps(Bob))>>]}

RECURSIVE node_from_kids(_, _, _)
node_from_kids(nodes, parent, kids) ==
    IF kids = << >> THEN nodes
    ELSE LET x == xmlNewNode(nodes, Head(kids).name)
             filled == [x.nodes EXCEPT ![x.node].props = Head(kids).props]
         IN  node_from_kids(nft_prefs_node_add_child(filled, parent, x.node),
                            parent, Tail(kids))

\* the tree of a parsed document and its root node
nft_prefs_node_from_file(nodes, doc) ==
    LET x == xmlNewNode(nodes, doc.name)
    IN  [nodes |-> node_from_kids(x.nodes, x.node, doc.kids), node |-> x.node]

\* xmlNewDoc: docs maps each allocated document to its root element
xmlNewDoc(docs) ==
    LET d == Min({i \in 1..(Cardinality(DOMAIN docs) + 1) : i \notin DOMAIN docs})
    IN  [docs |-> [i \in DOMAIN docs \cup {d} |->
                      IF i = d THEN NULL ELSE docs[i]],
         doc |-> d]

\* p->doc = xmlNewDoc("1.0") of nft_prefs_init: the context starts with an
\* empty document of its own
prefs_doc_init == xmlNewDoc(<< >>)

ConvInit ==
    [nodes |-> << >>, root |-> NULL, src |-> << >>,
     persons |-> [k \in 0..(PEOPLECOUNT - 1) |-> ZeroPerson], i |-> 0,
     people |-> ZeroPeople,
     docs |-> prefs_doc_init.docs, doc |-> prefs_doc_init.doc]

\* the record a conversion starts on
ConvState(cl, cv, failAt) ==
    [classes |-> cl, nodes |-> cv.nodes, src |-> cv.src,
     persons |-> cv.persons, i |-> cv.i, people |-> cv.people,
     fromObjCalls |-> 0, failAt |-> failAt, regs |-> << >>, crash |-> ""]

\* the host state a conversion leaves; root is the node the caller holds
ConvAfter(cv, st, root) ==
    [nodes |-> st.nodes, root |-> root, src |-> st.src,
     persons |-> st.persons, i |-> st.i, people |-> st.people,
     docs |-> cv.docs, doc |-> cv.doc]

\* ------------------------------------------------------------ documents
\* a document that parses but has no root element
Rootless == [name |-> << >>, kids |-> << >>]

\* what a file or a buffer may hold
Files == {d \in Docs : Len(d.kids) <= 1} \cup {Rootless}

\* xmlReadFile of a file that parses: a new document and its tree
xmlReadFile(nodes, docs, file) ==
    LET x == xmlNewDoc(docs)
        t == nft_prefs_node_from_file(nodes, file)
    IN  IF file = Rootless
        THEN [nodes |-> nodes, docs |-> x.docs, doc |-> x.doc]
        ELSE [nodes |-> t.nodes, docs |-> [x.docs EXCEPT ![x.doc] = t.node],
              doc |-> x.doc]

\* xmlReadMemory of a buffer that parses
xmlReadMemory(nodes, docs, buffer) == xmlReadFile(nodes, docs, buffer)

xmlDocGetRootElement(docs, doc) == docs[doc]

\* releases the document and its tree; a document that is not allocated has
\* been freed before
xmlFreeDoc(nodes, docs, doc) ==
    IF doc \notin DOMAIN docs
    THEN [nodes |-> nodes, docs |-> docs, crash |-> "xmlFreeDoc of a freed document"]
    ELSE [nodes |-> IF docs[doc] = NULL THEN nodes
                    ELSE nft_prefs_node_free(nodes, docs[doc]),
          docs |-> [i \in DOMAIN docs \ {doc} |-> docs[i]],
          crash |-> ""]

\* the end of nft_prefs_obj_from_buffer and nft_prefs_obj_from_file: r is
\* what nft_prefs_obj_from_node left and returned, x the parsed document
doc_replace(cv, x, r) ==
    LET f == IF cv.doc # NULL
             THEN xmlFreeDoc(r.st.nodes, x.docs, cv.doc)
             ELSE [nodes |-> r.st.nodes, docs |-> x.docs, crash |-> ""]
    IN  IF r.st.crash # ""
        THEN [st |-> r.st, docs |-> x.docs, doc |-> cv.doc, ret |-> NULL,
              log |-> ""]
        ELSE [st |-> [r.st EXCEPT !.nodes = f.nodes, !.crash = f.crash],
              docs |-> f.docs, doc |-> x.doc, ret |-> r.ret, log |-> ""]

\* the part of nft_prefs_obj_from_buffer and nft_prefs_obj_from_file after
\* the document was parsed: x is what the parser returned
obj_from_doc(cl, cv, x) ==
    LET st == [ConvState(cl, cv, 0) EXCEPT !.nodes = x.nodes]
        node == xmlDocGetRootElement(x.docs, x.doc)
    IN  IF node = NULL
        THEN [st |-> st, docs |-> x.docs, doc |-> cv.doc, ret |-> NULL,
              log |-> "No root element found in XML"]
        ELSE doc_replace(cv, x, obj_from_node(st, node))

\* parsed: xmlReadMemory() succeeds on the buffer
nft_prefs_obj_from_buffer(cl, cv, buffer, parsed) ==
    IF ~parsed
    THEN [st |-> ConvState(cl, cv, 0), docs |-> cv.docs, doc |-> cv.doc,
          ret |-> NULL, log |-> "Failed to xmlReadMemory()"]
    ELSE obj_from_doc(cl, cv, xmlReadMemory(cv.nodes, cv.docs, buffer))

\* nft_prefs_obj_from_file without its prefs_doc_set(): the context goes on
\* holding the document that was freed
nft_prefs_obj_from_file_noset(cl, cv, file, parsed) ==
    IF ~parsed
    THEN [st |-> ConvState(cl, cv, 0), docs |-> cv.docs, doc |-> cv.doc,
          ret |-> NULL, log |-> "Failed to xmlReadFile()"]
    ELSE [obj_from_doc(cl, cv, xmlReadFile(cv.nodes, cv.docs, file))
             EXCEPT !.doc = cv.doc]

\* parsed: xmlReadFile() succeeds on the file
nft_prefs_obj_from_file(cl, cv, file, parsed) ==
    IF ~parsed
    THEN [st |-> ConvState(cl, cv, 0), docs |-> cv.docs, doc |-> cv.doc,
          ret |-> NULL, log |-> "Failed to xmlReadFile()"]
    ELSE obj_from_doc(cl, cv, xmlReadFile(cv.nodes, cv.docs, file))

\* <<toObj, fromObj>> of the classes the host registers
HostCallbacks(className) ==
    IF className = PEOPLE_NAME
    THEN {<<fn_people_from_prefs, NULL>>,
          <<fn_people_from_prefs, fn_people_to_prefs>>}
    ELSE {<<fn_person_from_prefs, NULL>>,
          <<fn_person_from_prefs, fn_person_to_prefs>>}

\* <<className, obj>> of the objects the host may write out
HostObjects(cv) ==
    {<<PERSON_NAME, SrcPersonPtr(j)>> : j \in 1..Len(cv.src)}
        \cup {<<PERSON_NAME, PersonPtr(k)>> : k \in 0..(cv.i - 1)}
        \cup {<<PEOPLE_NAME, SrcPeoplePtr>>}
        \cup {<<PEOPLE_NAME, PeoplePtr>> : k \in 1..cv.people.people_count}

\* ------------------------------------------------------------ observers
LiveClasses(cl) == {k \in Occupied(cl) : cl.elements[k].name # << >>}

Handles(cl) == UNION {{<<k, o>> : o \in Occupied(cl.elements[k].objects)} :
                          k \in Occupied(cl)}

HandlesOf(cl, obj) == {h \in Handles(cl) :
                          cl.elements[h[1]].objects.elements[h[2]].object = obj}

\* ------------------------------------------------------------ actions
Call(op, ret, log, cb) == [op |-> op, ret |-> ret, log |-> log, cb |-> cb]

Init ==
    /\ classes = ZeroArray
    /\ last = Call("nft_prefs_init", TRUE, "", FALSE)
    /\ crashed = ""
    /\ np = nft_prefs_init
    /\ conv = ConvInit

ClassRegister ==
    \E className \in ClassNames, f \in Callbacks, initOk \in BOOLEAN :
        LET r == nft_prefs_class_register(classes, className, f[1], f[2],
                                          initOk)
        IN  /\ crashed = ""
            /\ Cardinality(Occupied(r.classes)) <= MaxClassSlots
            /\ classes' = r.classes
            /\ last' = Call("nft_prefs_class_register", r.ret, r.log, FALSE)
            /\ UNCHANGED <<crashed, np, conv>>

ClassUnregister ==
    \E className \in ClassNames :
        LET r == nft_prefs_class_unregister(classes, className)
        IN  /\ crashed = ""
            /\ classes' = r.classes
            /\ last' = Call("nft_prefs_class_unregister", TRUE, r.log, FALSE)
            /\ UNCHANGED <<crashed, np, conv>>

ObjRegister ==
    \E className \in ClassNames, obj \in ObjPtrs :
        LET r == nft_prefs_obj_register(classes, className, obj)
        IN  /\ crashed = ""
            /\ Cardinality(Handles(r.classes)) <= MaxObjHandles
            /\ classes' = r.classes
            /\ last' = Call("nft_prefs_obj_register", r.ret, r.log, FALSE)
            /\ UNCHANGED <<crashed, np, conv>>

ObjUnregister ==
    \E className \in ClassNames, obj \in ObjPtrs :
        \E uninit \in UninitSlots(classes, className) :
            LET r == nft_prefs_obj_unregister(classes, className, obj, uninit)
            IN  /\ crashed = ""
                /\ classes' = r.classes
                /\ last' = Call("nft_prefs_obj_unregister", TRUE, r.log, FALSE)
                /\ UNCHANGED <<crashed, np, conv>>

ObjToNode ==
    \E className \in ClassNames, obj \in ObjPtrs, cbRet \in BOOLEAN :
        LET r == nft_prefs_obj_to_node(classes, className, obj, cbRet)
        IN  /\ crashed = ""
            /\ classes' = r.classes
            /\ last' = Call("nft_prefs_obj_to_node", r.ret # NULL, r.log, r.cb)
            /\ crashed' = r.crash
            /\ UNCHANGED <<np, conv>>

ObjFromNode ==
    \E name \in ClassNames, cbRet \in BOOLEAN, cbObj \in ObjPtrs :
        LET r == nft_prefs_obj_from_node(classes, name, cbRet, cbObj)
        IN  /\ crashed = ""
            /\ Cardinality(Handles(r.classes)) <= MaxObjHandles
            /\ classes' = r.classes
            /\ last' = Call("nft_prefs_obj_from_node", r.ret # NULL, r.log, r.cb)
            /\ crashed' = r.crash
            /\ UNCHANGED <<np, conv>>

Next ==
    \/ ClassRegister
    \/ ClassUnregister
    \/ ObjRegister
    \/ ObjUnregister
    \/ ObjToNode
    \/ ObjFromNode

Spec == Init /\ [][Next]_vars

\* ------------------------------------------------------------ niftyprefs.c
NpRunning == crashed = "" /\ ~np.exited

NpBounded(p) ==
    /\ Cardinality(DOMAIN p.classes) <= MaxClassSlots
    /\ Cardinality(DOMAIN p.objects) <= MaxObjHandles
    /\ p.class_list_length <= MaxBlocks * NFT_PREFS_CLASSBUF_INC
    /\ p.obj_list_length <= MaxBlocks * NFT_PREFS_OBJBUF_INC
    /\ p.class_count >= 0 - MaxUnderflow
    /\ p.obj_count >= 0 - MaxUnderflow * NFT_PREFS_OBJBUF_INC

NpClassRegister ==
    \E className \in NpClassNames, f \in NpCallbacks :
        LET r == np_nft_prefs_class_register(np, className, f[1], f[2])
        IN  /\ NpRunning
            /\ NpBounded(r.p)
            /\ np' = r.p
            /\ last' = Call("nft_prefs_class_register", r.ret, r.log, FALSE)
            /\ UNCHANGED <<classes, crashed, conv>>

NpClassUnregister ==
    \E className \in NpClassNames :
        LET r == np_nft_prefs_class_unregister(np, className)
        IN  /\ NpRunning
            /\ NpBounded(r.p)
            /\ np' = r.p
            /\ last' = Call("nft_prefs_class_unregister", TRUE, r.log, FALSE)
            /\ crashed' = r.crash
            /\ UNCHANGED <<classes, conv>>

NpObjRegister ==
    \E className \in NpClassNames, obj \in NpObjPtrs :
        LET r == np_nft_prefs_obj_register(np, className, obj)
        IN  /\ NpRunning
            /\ NpBounded(r.p)
            /\ np' = r.p
            /\ last' = Call("nft_prefs_obj_register", r.ret, r.log, FALSE)
            /\ UNCHANGED <<classes, crashed, conv>>

NpObjUnregister ==
    \E obj \in NpObjPtrs :
        /\ NpRunning
        /\ np' = np_nft_prefs_obj_unregister(np, obj)
        /\ last' = Call("nft_prefs_obj_unregister", TRUE, "", FALSE)
        /\ UNCHANGED <<classes, crashed, conv>>

NpExit ==
    \E noticed \in BOOLEAN :
        LET r == np_nft_prefs_exit(np, noticed)
        IN  /\ NpRunning
            /\ np' = r.p
            /\ last' = Call("nft_prefs_exit", TRUE, "", FALSE)
            /\ crashed' = r.crash
            /\ UNCHANGED <<classes, conv>>

NextNp ==
    \/ NpClassRegister
    \/ NpClassUnregister
    \/ NpObjRegister
    \/ NpObjUnregister
    \/ NpExit

SpecNp == Init /\ [][NextNp]_vars

\* ------------------------------------------------------------ host actions
ConvClassRegister ==
    \E className \in {PEOPLE_NAME, PERSON_NAME} :
        \E f \in HostCallbacks(className) :
            LET r == nft_prefs_class_register(classes, className, f[1], f[2],
                                              TRUE)
            IN  /\ crashed = ""
                /\ Cardinality(Occupied(r.classes)) <= MaxClassSlots
                /\ classes' = r.classes
                /\ last' = Call("nft_prefs_class_register", r.ret, r.log, FALSE)
                /\ UNCHANGED <<crashed, np, conv>>

\* the host fills the list it is going to write out
ConvHostSet ==
    \E list \in SrcLists :
        /\ crashed = ""
        /\ conv.src = << >>
        /\ conv' = [conv EXCEPT !.src = list]
        /\ last' = Call("host", TRUE, "", FALSE)
        /\ UNCHANGED <<classes, crashed, np>>

ConvNodeParse ==
    \E doc \in Docs :
        LET r == nft_prefs_node_from_file(conv.nodes, doc)
        IN  /\ crashed = ""
            /\ conv.root = NULL
            /\ Cardinality(DOMAIN r.nodes) <= MaxNodes
            /\ conv' = [conv EXCEPT !.nodes = r.nodes, !.root = r.node]
            /\ last' = Call("nft_prefs_node_from_file", TRUE, "", FALSE)
            /\ UNCHANGED <<classes, crashed, np>>

ConvNodeFree ==
    /\ crashed = ""
    /\ conv.root # NULL
    /\ conv' = [conv EXCEPT !.nodes = nft_prefs_node_free(@, conv.root),
                            !.root = NULL]
    /\ last' = Call("nft_prefs_node_free", TRUE, "", FALSE)
    /\ UNCHANGED <<classes, crashed, np>>

ConvToNode ==
    \E co \in HostObjects(conv), failAt \in 0..PEOPLECOUNT :
        LET r == obj_to_node(ConvState(classes, conv, failAt), co[1], co[2])
        IN  /\ crashed = ""
            /\ conv.root = NULL
            /\ Cardinality(DOMAIN r.st.nodes) <= MaxNodes
            /\ classes' = r.st.classes
            /\ conv' = ConvAfter(conv, r.st, r.ret)
            /\ last' = Call("nft_prefs_obj_to_node", r.ret # NULL, "",
                            r.st.fromObjCalls > 0)
            /\ crashed' = r.st.crash
            /\ UNCHANGED np

ConvFromNode ==
    LET r == obj_from_node(ConvState(classes, conv, 0), conv.root)
    IN  /\ crashed = ""
        /\ conv.root # NULL
        /\ Cardinality(Handles(r.st.classes)) <= MaxConvHandles
        /\ classes' = r.st.classes
        /\ conv' = ConvAfter(conv, r.st, conv.root)
        /\ last' = Call("nft_prefs_obj_from_node", r.ret # NULL, "",
                        r.st.crash = "")
        /\ crashed' = r.st.crash
        /\ UNCHANGED np

NextConv ==
    \/ ConvClassRegister
    \/ ConvHostSet
    \/ ConvNodeParse
    \/ ConvNodeFree
    \/ ConvToNode
    \/ ConvFromNode

SpecConv == Init /\ [][NextConv]_vars

\* ------------------------------------------------------------ parse actions
\* the state a parse call leaves: r is what the call op returned
DocCall(op, r) ==
    /\ crashed = ""
    /\ Cardinality(Handles(r.st.classes)) <= MaxConvHandles
    /\ Cardinality(DOMAIN r.st.nodes) <= MaxNodes
    /\ Cardinality(DOMAIN r.docs) <= MaxDocs
    /\ classes' = r.st.classes
    /\ conv' = [ConvAfter(conv, r.st, conv.root)
                   EXCEPT !.docs = r.docs, !.doc = r.doc]
    /\ last' = Call(op, r.ret # NULL, r.log, r.st.regs # << >>)
    /\ crashed' = r.st.crash
    /\ UNCHANGED np

DocFromBuffer ==
    \E buffer \in Files, parsed \in BOOLEAN :
        DocCall("nft_prefs_obj_from_buffer",
                nft_prefs_obj_from_buffer(classes, conv, buffer, parsed))

DocFromFile ==
    \E file \in Files, parsed \in BOOLEAN :
        DocCall("nft_prefs_obj_from_file",
                nft_prefs_obj_from_file(classes, conv, file, parsed))

NextDoc ==
    \/ ConvClassRegister
    \/ DocFromBuffer
    \/ DocFromFile

SpecDoc == Init /\ [][NextDoc]_vars

\* ------------------------------------------------------------ two classes
\* the calls of a host that registers two classes and one object
GrowNames == {NameA, NameMax}

GrowClassRegister ==
    \E className \in GrowNames, initOk \in BOOLEAN :
        LET r == nft_prefs_class_register(classes, className, 1, 2, initOk)
        IN  /\ crashed = ""
            /\ Cardinality(Occupied(r.classes)) <= MaxClassSlots
            /\ classes' = r.classes
            /\ last' = Call("nft_prefs_class_register", r.ret, r.log, FALSE)
            /\ UNCHANGED <<crashed, np, conv>>

GrowClassUnregister ==
    \E className \in GrowNames :
        LET r == nft_prefs_class_unregister(classes, className)
        IN  /\ crashed = ""
            /\ classes' = r.classes
            /\ last' = Call("nft_prefs_class_unregister", TRUE, r.log, FALSE)
            /\ UNCHANGED <<crashed, np, conv>>

GrowObjRegister ==
    \E className \in GrowNames, obj \in ObjPtrs :
        LET r == nft_prefs_obj_register(classes, className, obj)
        IN  /\ crashed = ""
            /\ Cardinality(Handles(r.classes)) <= MaxObjHandles
            /\ classes' = r.classes
            /\ last' = Call("nft_prefs_obj_register", r.ret, r.log, FALSE)
            /\ UNCHANGED <<crashed, np, conv>>

GrowObjUnregister ==
    \E className \in GrowNames, obj \in ObjPtrs :
        \E uninit \in UninitSlots(classes, className) :
            LET r == nft_prefs_obj_unregister(classes, className, obj, uninit)
            IN  /\ crashed = ""
                /\ classes' = r.classes
                /\ last' = Call("nft_prefs_obj_unregister", TRUE, r.log, FALSE)
                /\ UNCHANGED <<crashed, np, conv>>

NextGrow ==
    \/ GrowClassRegister
    \/ GrowClassUnregister
    \/ GrowObjRegister
    \/ GrowObjUnregister

SpecGrow == Init /\ [][NextGrow]_vars

\* ------------------------------------------------------------ claims
\* the object pointers held by the occupied handles of the class at slot k
ObjectsOf(cl, k) ==
    {cl.elements[k].objects.elements[o].object :
         o \in Occupied(cl.elements[k].objects)}

HandleCount(cl, obj) == Cardinality(HandlesOf(cl, obj))

C2_UniqueStoredNames ==
    \A k1 \in LiveClasses(classes), k2 \in LiveClasses(classes) :
        k1 # k2 => classes.elements[k1].name # classes.elements[k2].name

C4_UnregisterCascade ==
    [][\A className \in ClassNames \ {NameEmpty} :
          LET k == prefs_class_find_by_name(classes, className)
              r == nft_prefs_class_unregister(classes, className)
          IN  (/\ k # NoSlot
               /\ last'.op = "nft_prefs_class_unregister"
               /\ last'.log = r.log
               /\ classes' = r.classes)
              => /\ prefs_class_find_by_name(classes', className) = NoSlot
                 /\ Occupied(classes'.elements[k].objects) = {}
                 /\ \A j \in Occupied(classes) \ {k} :
                        /\ j \in Occupied(classes')
                        /\ classes'.elements[j] = classes.elements[j]]_vars

\* C5: after nft_prefs_exit no live class descriptor is left that
\* prefs_class_free() was not called on, whatever slot it is stored in.
C5_ExitFreesEveryClass ==
    np.exited => DOMAIN np.classes = {}

\* C6: nft_prefs_obj_unregister(p, c, o) of an object registered under c
\* removes the handle: o is no longer held in the registry of c and the slots
\* that held it are free.
C6_UnregisterRemovesHandle ==
    [][\A className \in ClassNames, obj \in ObjPtrs \ {NULL} :
          \A uninit \in UninitSlots(classes, className) :
              LET c == prefs_class_find_by_name(classes, className)
                  r == nft_prefs_obj_unregister(classes, className, obj, uninit)
              IN  (/\ c # NoSlot
                   /\ obj \in ObjectsOf(classes, c)
                   /\ last'.op = "nft_prefs_obj_unregister"
                   /\ last'.log = r.log
                   /\ classes' = r.classes)
                  => /\ obj \notin ObjectsOf(classes', c)
                     /\ \A h \in HandlesOf(classes, obj) :
                            h[1] = c => h \notin Handles(classes')]_vars

RECURSIVE RegisterAll(_, _, _)
\* nft_prefs_obj_register(p, className, objs[i]) for each i in turn
RegisterAll(cl, className, objs) ==
    IF objs = << >> THEN cl
    ELSE RegisterAll(nft_prefs_obj_register(cl, className, Head(objs)).classes,
                     className, Tail(objs))

RECURSIVE UnregisterAll(_, _, _)
\* nft_prefs_obj_unregister(p, className, objs[i]) for each i in turn; the
\* uninitialised slot is read only when the object is not found
UnregisterAll(cl, className, objs) ==
    IF objs = << >> THEN cl
    ELSE UnregisterAll(
             nft_prefs_obj_unregister(cl, className, Head(objs), 0).classes,
             className, Tail(objs))

\* the sequences of N distinct objects registered by the scenario of C7
ObjectRuns == {<<1>>, <<2>>, <<1, 2>>, <<2, 1>>}

\* C7: in a class with an empty object registry, after N objects were
\* registered and all N unregistered, the next N registrations occupy the
\* same slots and the capacity of the object array is the same, one block.
C7_SlotReuse ==
    \A className \in ClassNames \ {NameEmpty}, objs \in ObjectRuns :
        LET c == prefs_class_find_by_name(classes, className)
            s1 == RegisterAll(classes, className, objs)
            s2 == UnregisterAll(s1, className, objs)
            s3 == RegisterAll(s2, className, objs)
        IN  (c # NoSlot /\ Occupied(classes.elements[c].objects) = {})
            => /\ Occupied(s3.elements[c].objects)
                      = Occupied(s1.elements[c].objects)
               /\ s3.elements[c].objects.arraysize
                      = s1.elements[c].objects.arraysize
               /\ s1.elements[c].objects.arraysize <= NFT_ARRAY_DEFAULT_INC

\* C8: the occupied slots of the class array are as many as the live
\* classes: the slot of an unregistered class is free for the next register.
C8_OccupiedSlotsAreLiveClasses ==
    Cardinality(Occupied(classes)) = Cardinality(LiveClasses(classes))

\* C9: nft_prefs_obj_to_node with a class name that is not registered
\* returns NULL without a crash, invokes no callback and leaves the registry
\* unchanged.
C9_ToNodeUnknownClass ==
    [][\A className \in ClassNames, obj \in ObjPtrs \ {NULL},
          cbRet \in BOOLEAN :
          LET r == nft_prefs_obj_to_node(classes, className, obj, cbRet)
          IN  (/\ prefs_class_find_by_name(classes, className) = NoSlot
               /\ last'.op = "nft_prefs_obj_to_node"
               /\ last'.ret = (r.ret # NULL)
               /\ last'.cb = r.cb
               /\ crashed' = r.crash
               /\ classes' = r.classes)
              => /\ crashed' = ""
                 /\ last'.ret = FALSE
                 /\ last'.cb = FALSE
                 /\ classes' = classes]_vars

\* C10: nft_prefs_obj_from_node on a node whose tag is not a registered
\* class returns NULL without a crash, invokes no callback and registers no
\* object.
C10_FromNodeUnknownClass ==
    [][\A name \in ClassNames, cbRet \in BOOLEAN, cbObj \in ObjPtrs :
          LET r == nft_prefs_obj_from_node(classes, name, cbRet, cbObj)
          IN  (/\ prefs_class_find_by_name(classes, name) = NoSlot
               /\ last'.op = "nft_prefs_obj_from_node"
               /\ last'.ret = (r.ret # NULL)
               /\ last'.cb = r.cb
               /\ crashed' = r.crash
               /\ classes' = r.classes)
              => /\ crashed' = ""
                 /\ last'.ret = FALSE
                 /\ last'.cb = FALSE
                 /\ Handles(classes') = Handles(classes)]_vars

C12_CallbackFailureNoRegistration ==
    \A name \in ClassNames, cbObj \in ObjPtrs :
        LET c == prefs_class_find_by_name(classes, name)
            r == nft_prefs_obj_from_node(classes, name, FALSE, cbObj)
        IN  (c # NoSlot /\ classes.elements[c].toObj # NULL)
            => /\ r.ret = NULL
               /\ r.classes = classes

\* C19: nft_prefs_class_unregister with a name that no class is registered
\* under changes neither the class array nor any object registry, and so
\* unregistering a name twice leaves the state that unregistering it once
\* leaves.
C19_UnregisterUnknownIsNoOp ==
    \A className \in ClassNames :
        LET once == nft_prefs_class_unregister(classes, className).classes
            twice == nft_prefs_class_unregister(once, className).classes
        IN  /\ prefs_class_find_by_name(classes, className) = NoSlot
                   => once = classes
            /\ twice = once

\* C20: nft_prefs_obj_unregister(p, c, o) where c is not a registered class,
\* or o is not held by the object registry of c, frees no slot, changes no
\* handle and does not crash.
C20_ObjUnregisterMissIsNoOp ==
    [][\A className \in ClassNames, obj \in ObjPtrs \ {NULL} :
          \A uninit \in UninitSlots(classes, className) :
              LET c == prefs_class_find_by_name(classes, className)
                  r == nft_prefs_obj_unregister(classes, className, obj, uninit)
              IN  (/\ c = NoSlot \/ obj \notin ObjectsOf(classes, c)
                   /\ last'.op = "nft_prefs_obj_unregister"
                   /\ last'.log = r.log
                   /\ classes' = r.classes)
                  => /\ classes' = classes
                     /\ crashed' = ""]_vars

\* the class at slot k is live under className with both callbacks set
ClassReady(cl, className) ==
    LET k == prefs_class_find_by_name(cl, className)
    IN  k # NoSlot /\ cl.elements[k].toObj # NULL /\ cl.elements[k].fromObj # NULL

\* C13: when the from-object callback returns failure, nft_prefs_obj_to_node
\* returns NULL and no node the call allocated is still allocated.
C13_FailedToNodeFreesNode ==
    \A co \in HostObjects(conv), failAt \in 1..PEOPLECOUNT :
        LET r == obj_to_node(ConvState(classes, conv, failAt), co[1], co[2])
        IN  (r.st.crash = "" /\ r.st.fromObjCalls >= failAt)
            => /\ r.ret = NULL
               /\ DOMAIN r.st.nodes = DOMAIN conv.nodes

\* C14: for a parent with two children whose from-object callback fails on
\* the second child, nft_prefs_obj_to_node on the parent returns NULL, has
\* registered nothing, and no node the caller held before refers to a node
\* of the call.
C14_SecondChildFailure ==
    \A co \in HostObjects(conv) :
        LET st == ConvState(classes, conv, 2)
            r == obj_to_node(st, co[1], co[2])
        IN  (/\ co[1] = PEOPLE_NAME
             /\ Len(PeopleList(st, co[2])) = 2
             /\ r.st.crash = ""
             /\ r.st.fromObjCalls = 2)
            => /\ r.ret = NULL
               /\ r.st.classes = classes
               /\ r.st.regs = << >>
               /\ \A n \in DOMAIN conv.nodes : r.st.nodes[n] = conv.nodes[n]

\* C14 witness: a conversion of a list of two persons ran the callback and
\* failed, after the node of the first person was appended to the node of
\* the list.
C14_Witness ==
    /\ last.op = "nft_prefs_obj_to_node"
    /\ last.cb /\ ~last.ret
    /\ crashed = ""
    /\ conv.root = NULL
    /\ Len(conv.src) = 2
    /\ \E n \in DOMAIN conv.nodes :
           /\ conv.nodes[n].name = PEOPLE_NAME
           /\ Len(conv.nodes[n].children) = 1

\* C15: when nft_prefs_obj_from_node on a node with children fails, no
\* object created during the call is registered when it returns.
C15_FailedFromNodeLeavesNoDescendant ==
    conv.root # NULL =>
        LET r == obj_from_node(ConvState(classes, conv, 0), conv.root)
        IN  (r.st.crash = "" /\ r.ret = NULL)
            => /\ Handles(r.st.classes) = Handles(classes)
               /\ r.st.regs = << >>

\* all four attributes of a person can be read from node n
ValidPerson(nodes, n) ==
    /\ nodes[n].name = PERSON_NAME
    /\ nft_prefs_node_prop_string_get(nodes, n, "name").ok
    /\ nft_prefs_node_prop_string_get(nodes, n, "email").ok
    /\ nft_prefs_node_prop_int_get(nodes, n, "age").ok
    /\ nft_prefs_node_prop_boolean_get(nodes, n, "alive").ok

\* the new handle holding obj is in the registry of the class className
RegisteredUnder(before, after, obj, className) ==
    \E h \in HandlesOf(after, obj) \ Handles(before) :
        after.elements[h[1]].name = className

\* C16: nft_prefs_obj_from_node on a "people" node with K "person" children
\* yields K persons in document order, the i-th built from the i-th child,
\* each registered under "person" before the parent is registered under
\* "people"; it succeeds whenever the children are readable and the host has
\* room for K more persons.
C16_ChildrenInDocumentOrder ==
    (conv.root # NULL /\ conv.nodes[conv.root].name = PEOPLE_NAME) =>
        LET kids == conv.nodes[conv.root].children
            K == Len(kids)
            r == obj_from_node(ConvState(classes, conv, 0), conv.root)
        IN  /\ (/\ prefs_class_find_by_name(classes, PEOPLE_NAME) # NoSlot
                /\ prefs_class_find_by_name(classes, PERSON_NAME) # NoSlot
                /\ conv.i + K <= PEOPLECOUNT
                /\ \A j \in 1..K : ValidPerson(conv.nodes, kids[j]))
               => r.ret # NULL
            /\ (r.st.crash = "" /\ r.ret # NULL)
               => /\ r.ret = PeoplePtr
                  /\ Len(r.st.regs) = K + 1
                  /\ r.st.regs[K + 1] = PeoplePtr
                  /\ RegisteredUnder(classes, r.st.classes, PeoplePtr,
                                     PEOPLE_NAME)
                  /\ \A j \in 1..K :
                         /\ r.st.people.people[j - 1] = PersonPtr(conv.i + j - 1)
                         /\ r.st.regs[j] = r.st.people.people[j - 1]
                         /\ PersonProps(PersonAt(r.st, r.st.regs[j]))
                                = conv.nodes[kids[j]].props
                         /\ RegisteredUnder(classes, r.st.classes, r.st.regs[j],
                                            PERSON_NAME)

\* C16 witness: a node with two children was converted and the three objects
\* are registered.
C16_Witness ==
    /\ last.op = "nft_prefs_obj_from_node"
    /\ last.ret /\ crashed = ""
    /\ conv.root # NULL
    /\ Len(conv.nodes[conv.root].children) = 2
    /\ conv.i = 2
    /\ Cardinality(Handles(classes)) = 3
    /\ HandleCount(classes, PeoplePtr) = 1

\* C17: nft_prefs_obj_to_node on a list of K persons returns a node with
\* exactly K children, the j-th being the node of the j-th person of the
\* list; it succeeds whenever both classes have their from-object callback.
C17_ChildrenInAppendOrder ==
    \A co \in HostObjects(conv) :
        co[1] = PEOPLE_NAME =>
            LET st == ConvState(classes, conv, 0)
                list == PeopleList(st, co[2])
                r == obj_to_node(st, co[1], co[2])
            IN  /\ (/\ ClassReady(classes, PEOPLE_NAME)
                    /\ ClassReady(classes, PERSON_NAME)
                    /\ \A j \in 1..Len(list) : list[j] # NULL)
                   => r.ret # NULL
                /\ (r.st.crash = "" /\ r.ret # NULL)
                   => /\ r.ret \notin DOMAIN conv.nodes
                      /\ r.st.nodes[r.ret].name = PEOPLE_NAME
                      /\ Len(r.st.nodes[r.ret].children) = Len(list)
                      /\ \A j \in 1..Len(list) :
                             LET kid == r.st.nodes[r.ret].children[j]
                             IN  /\ r.st.nodes[kid].name = PERSON_NAME
                                 /\ r.st.nodes[kid].parent = r.ret
                                 /\ r.st.nodes[kid].props
                                        = PersonProps(PersonAt(st, list[j]))

\* C17 witness: the caller holds the node of a list of two persons.
C17_Witness ==
    /\ last.op = "nft_prefs_obj_to_node"
    /\ last.ret /\ crashed = ""
    /\ conv.root # NULL
    /\ conv.nodes[conv.root].name = PEOPLE_NAME
    /\ Len(conv.nodes[conv.root].children) = 2

\* C18: nft_prefs_obj_from_node on the node nft_prefs_obj_to_node returned
\* for obj yields an object with the string, integer and boolean attributes
\* of obj, for a person and for a list of persons (person by person, in
\* order); the two calls succeed whenever the classes have both callbacks
\* and the host has room for the new persons.
C18_RoundTrip ==
    \A co \in HostObjects(conv) :
        LET st == ConvState(classes, conv, 0)
            list == IF co[1] = PEOPLE_NAME THEN PeopleList(st, co[2])
                    ELSE <<co[2]>>
            t == obj_to_node(st, co[1], co[2])
            f == obj_from_node(t.st, t.ret)
        IN  /\ (/\ ClassReady(classes, PEOPLE_NAME)
                /\ ClassReady(classes, PERSON_NAME)
                /\ \A j \in 1..Len(list) : list[j] # NULL
                /\ conv.i + Len(list) <= PEOPLECOUNT)
               => (t.ret # NULL /\ f.ret # NULL)
            /\ (t.st.crash = "" /\ t.ret # NULL)
               => ((f.st.crash = "" /\ f.ret # NULL)
                   => IF co[1] = PERSON_NAME
                      THEN /\ f.ret # co[2]
                           /\ PersonAt(f.st, f.ret) = PersonAt(st, co[2])
                      ELSE /\ f.ret = PeoplePtr
                           /\ \A j \in 1..Len(list) :
                                  /\ f.st.people.people[j - 1] # list[j]
                                  /\ PersonAt(f.st, f.st.people.people[j - 1])
                                         = PersonAt(st, list[j]))

\* C18 witness: the node of a person of the host's list was converted back
\* and the new person has the attributes of that one.
C18_Witness ==
    /\ last.op = "nft_prefs_obj_from_node"
    /\ last.ret /\ crashed = ""
    /\ conv.root # NULL
    /\ conv.nodes[conv.root].name = PERSON_NAME
    /\ conv.i >= 1
    /\ conv.persons[conv.i - 1] = Carol
    /\ conv.nodes[conv.root].props = PersonProps(Carol)

\* C21: nft_prefs_obj_register under a class name that no live class of the
\* context stores (never registered, or unregistered since) returns
\* NFT_FAILURE and allocates no handle slot.
C21_RegisterUnknownClassFails ==
    \A className \in ClassNames, obj \in ObjPtrs \ {NULL} :
        (\A k \in LiveClasses(classes) :
             classes.elements[k].name # className)
        => LET r == nft_prefs_obj_register(classes, className, obj)
           IN  /\ r.ret = NFT_FAILURE
               /\ Handles(r.classes) = Handles(classes)

\* C22: nft_prefs_class_register with an empty class name returns NFT_FAILURE
\* and leaves the class array, with every descriptor and object registry, as
\* it was.
C22_EmptyNameRejected ==
    \A f \in Callbacks, initOk \in BOOLEAN :
        LET r == nft_prefs_class_register(classes, NameEmpty, f[1], f[2],
                                          initOk)
        IN  r.ret = NFT_FAILURE /\ r.classes = classes

\* C22 witness: a registration was refused for its empty name while the
\* class array held a live class and the slot of an unregistered one.
C22_Witness ==
    /\ last.op = "nft_prefs_class_register"
    /\ last.log = "class name may not be empty"
    /\ last.ret = NFT_FAILURE
    /\ LiveClasses(classes) # {}
    /\ Occupied(classes) # LiveClasses(classes)

\* C23: when one pointer is registered twice under one class, either the
\* second registration fails, or there are two handles and two successive
\* nft_prefs_obj_unregister calls free two distinct slots, one each, and
\* leave the pointer unregistered.
C23_DoubleRegistration ==
    \A className \in ClassNames \ {NameEmpty}, obj \in ObjPtrs \ {NULL} :
        LET c == prefs_class_find_by_name(classes, className)
            r1 == nft_prefs_obj_register(classes, className, obj)
            r2 == nft_prefs_obj_register(r1.classes, className, obj)
            u1 == nft_prefs_obj_unregister(r2.classes, className, obj, 0)
            u2 == nft_prefs_obj_unregister(u1.classes, className, obj, 0)
            h0 == HandlesOf(classes, obj)
            h2 == HandlesOf(r2.classes, obj)
            h3 == HandlesOf(u1.classes, obj)
            h4 == HandlesOf(u2.classes, obj)
        IN  (c # NoSlot /\ h0 = {} /\ r1.ret = NFT_SUCCESS)
            => \/ r2.ret = NFT_FAILURE /\ r2.classes = r1.classes
               \/ /\ Cardinality(h2) = 2
                  /\ h3 \subseteq h2 /\ Cardinality(h3) = 1
                  /\ h4 = {}

\* C24: nft_prefs_obj_to_node converts only an object that is registered:
\* for an object the registry of the class does not hold, it returns NULL
\* and does not invoke the from-object callback.
C24_ToNodeOnlyRegistered ==
    \A className \in ClassNames, obj \in ObjPtrs \ {NULL},
       cbRet \in BOOLEAN :
        LET c == prefs_class_find_by_name(classes, className)
            r == nft_prefs_obj_to_node(classes, className, obj, cbRet)
        IN  (/\ c # NoSlot
             /\ classes.elements[c].fromObj # NULL
             /\ obj \notin ObjectsOf(classes, c))
            => r.ret = NULL /\ ~r.cb

\* C25: the context owns one allocated document in every state, and every
\* nft_prefs_obj_from_buffer or nft_prefs_obj_from_file that parses a
\* document with a root element and returns leaves the context owning the
\* document it parsed, with the tree of the file, and has freed the document
\* the context owned before, once, with its tree, and no other document.
C25_ParseReplacesDocument ==
    /\ conv.doc # NULL /\ conv.doc \in DOMAIN conv.docs
    /\ \A file \in Docs, fromFile \in BOOLEAN :
           LET r == IF fromFile
                    THEN nft_prefs_obj_from_file(classes, conv, file, TRUE)
                    ELSE nft_prefs_obj_from_buffer(classes, conv, file, TRUE)
               old == conv.docs[conv.doc]
               gone == IF old = NULL THEN {} ELSE Subtree(conv.nodes, old)
           IN  (crashed = "" /\ r.st.crash = "")
               => /\ r.doc \notin DOMAIN conv.docs
                  /\ DOMAIN r.docs = (DOMAIN conv.docs \ {conv.doc}) \cup {r.doc}
                  /\ r.docs[r.doc] \in DOMAIN r.st.nodes
                  /\ r.st.nodes[r.docs[r.doc]].name = file.name
                  /\ Len(r.st.nodes[r.docs[r.doc]].children) = Len(file.kids)
                  /\ Subtree(r.st.nodes, r.docs[r.doc]) \subseteq DOMAIN r.st.nodes
                  /\ gone \cap DOMAIN r.st.nodes = {}
                  /\ \A d \in DOMAIN conv.docs \ {conv.doc} :
                         r.docs[d] = conv.docs[d]

\* C25 witness: a parse from a file returned an object while the context
\* held the document of an earlier parse: the people object is registered
\* twice and the only tree left is the one of the document now owned.
C25_Witness ==
    /\ last.op = "nft_prefs_obj_from_file"
    /\ last.ret /\ crashed = ""
    /\ HandleCount(classes, PeoplePtr) = 2
    /\ conv.docs[conv.doc] # NULL
    /\ DOMAIN conv.nodes = Subtree(conv.nodes, conv.docs[conv.doc])

\* the name of the n-th class of a host that registers many
ManyName(n) == <<2, n>>

RECURSIVE RegisterClasses(_, _)
\* nft_prefs_class_register(p, ManyName(i), f, g) for i = n down to 1
RegisterClasses(cl, n) ==
    IF n = 0 THEN cl
    ELSE LET r == nft_prefs_class_register(cl, ManyName(n), 1, 2, TRUE)
         IN  IF r.ret = NFT_SUCCESS THEN RegisterClasses(r.classes, n - 1)
             ELSE cl

\* the handle at slot o of the registry of the class at slot c
HandleAt(cl, c, o) == cl.elements[c].objects.elements[o]

C27_NoNullObjectHandle ==
    /\ \A h \in Handles(classes) : HandleAt(classes, h[1], h[2]).object # NULL
    /\ \A className \in ClassNames :
           LET r == nft_prefs_obj_register(classes, className, NULL)
           IN  r.ret = NFT_FAILURE /\ r.classes = classes
    /\ \A name \in ClassNames :
           LET c == prefs_class_find_by_name(classes, name)
               r == nft_prefs_obj_from_node(classes, name, TRUE, NULL)
           IN  (c # NoSlot /\ classes.elements[c].toObj # NULL)
               => /\ r.crash = "" /\ r.cb
                  /\ r.ret = NULL
                  /\ r.classes = classes

\* C27 witness: a conversion from a node ran the callback of a class that
\* holds a handle, got no object and returned NULL after the registration
\* was refused.
C27_Witness ==
    /\ last.op = "nft_prefs_obj_from_node"
    /\ last.cb /\ ~last.ret
    /\ last.log = "Failed to register new object"
    /\ crashed = ""
    /\ \E k \in LiveClasses(classes) :
           /\ classes.elements[k].toObj # NULL
           /\ Occupied(classes.elements[k].objects) # {}

\* C28: nft_prefs_class_register of a name whose class was unregistered
\* succeeds, and the class then found under the name has the callbacks of
\* this registration and an empty object registry.
C28_ReregisterStartsEmpty ==
    \A className \in ClassNames \ {NameEmpty}, f \in Callbacks :
        LET c == prefs_class_find_by_name(classes, className)
            u == nft_prefs_class_unregister(classes, className).classes
            r == nft_prefs_class_register(u, className, f[1], f[2], TRUE)
            n == prefs_class_find_by_name(r.classes, className)
        IN  c # NoSlot
            => /\ r.ret = NFT_SUCCESS
               /\ n # NoSlot
               /\ Occupied(r.classes.elements[n].objects) = {}
               /\ r.classes.elements[n].toObj = f[1]
               /\ r.classes.elements[n].fromObj = f[2]

\* C29: when prefs_obj_init_array() fails in nft_prefs_class_register, after
\* the slot was allocated and named, the call returns NFT_FAILURE, the slot
\* is free again, the classes and their registries are as before and no
\* lookup finds the name.
C29_InitFailureReleasesSlot ==
    \A className \in ClassNames \ {NameEmpty}, f \in Callbacks :
        LET r == nft_prefs_class_register(classes, className, f[1], f[2],
                                          FALSE)
        IN  prefs_class_find_by_name(classes, className) = NoSlot
            => /\ r.ret = NFT_FAILURE
               /\ Occupied(r.classes) = Occupied(classes)
               /\ \A k \in Occupied(classes) :
                      r.classes.elements[k] = classes.elements[k]
               /\ LiveClasses(r.classes) = LiveClasses(classes)
               /\ \A name \in ClassNames :
                      prefs_class_find_by_name(r.classes, name)
                          = prefs_class_find_by_name(classes, name)
               /\ prefs_class_find_by_name(r.classes, className) = NoSlot

\* C29 witness: a registration failed on the initialisation of its object
\* array while another class was registered and held an object.
C29_Witness ==
    /\ last.op = "nft_prefs_class_register"
    /\ last.log = "Failed to initialize object array"
    /\ last.ret = NFT_FAILURE
    /\ \E k \in LiveClasses(classes) :
           Occupied(classes.elements[k].objects) # {}

\* C30: class_list_length of niftyprefs.c starts at 0, is a multiple of
\* NFT_PREFS_CLASSBUF_INC, and never decreases; it changes only in a
\* nft_prefs_class_register that finds every slot of the list in use, and
\* then by one block: a registration that finds a free slot leaves it as
\* it is.
C30_CapacityGrowth ==
    /\ np.class_list_length = 0
    /\ [][/\ np'.class_list_length >= np.class_list_length
          /\ np'.class_list_length % NFT_PREFS_CLASSBUF_INC = 0
          /\ np'.class_list_length # np.class_list_length
                 => /\ np'.class_list_length
                           = np.class_list_length + NFT_PREFS_CLASSBUF_INC
                    /\ last'.op = "nft_prefs_class_register"
                    /\ \A i \in 0..(np.class_list_length - 1) :
                           np_class_name(np, i) # << >>]_vars

\* C31: in niftyprefs.c, when a nft_prefs_class_register or a
\* nft_prefs_class_unregister has run, of a registered name or not, the call
\* has returned, class_count is the number of class slots whose name is not
\* empty, and 0 <= class_count <= class_list_length.
C31_ClassCountIsLiveSlots ==
    last.op \in {"nft_prefs_class_register", "nft_prefs_class_unregister"}
    => /\ crashed = ""
       /\ np.class_count
              = Cardinality({i \in 0..(np.class_list_length - 1) :
                                np_class_name(np, i) # << >>})
       /\ 0 <= np.class_count
       /\ np.class_count <= np.class_list_length

\* C32: when nft_prefs_exit has run, the call has returned and the document
\* of the context was freed once, not twice.
C32_ExitFreesOnce ==
    last.op = "nft_prefs_exit"
    => /\ crashed = ""
       /\ np.exited
       /\ np.doc_frees = 1

\* C33: after nft_prefs_class_register(p, name, ...) returned NFT_SUCCESS,
\* for a name of any length, the class is found under name:
\* nft_prefs_obj_register(p, name, o) of a non-null o succeeds, and
\* nft_prefs_class_unregister(p, name) leaves no class found under name.
C33_RegisteredNameIsFound ==
    \A className \in ClassNames, f \in Callbacks, obj \in ObjPtrs \ {NULL} :
        LET r == nft_prefs_class_register(classes, className, f[1], f[2], TRUE)
            o == nft_prefs_obj_register(r.classes, className, obj)
            u == nft_prefs_class_unregister(r.classes, className)
        IN  r.ret = NFT_SUCCESS
            => /\ prefs_class_find_by_name(r.classes, className) # NoSlot
               /\ o.ret = NFT_SUCCESS
               /\ prefs_class_find_by_name(u.classes, className) = NoSlot
               /\ LiveClasses(u.classes) = LiveClasses(classes)

\* C34: nft_prefs_obj_to_node on a class whose from-object callback is NULL,
\* and nft_prefs_obj_from_node on a node of a class whose to-object callback
\* is NULL, return NULL without calling through the null pointer and leave
\* the registry as it was.
C34_NullCallbackFails ==
    \A className \in ClassNames, obj \in ObjPtrs \ {NULL},
       cbRet \in BOOLEAN :
        LET c == prefs_class_find_by_name(classes, className)
            t == nft_prefs_obj_to_node(classes, className, obj, cbRet)
            n == nft_prefs_obj_from_node(classes, className, cbRet, obj)
        IN  /\ (c # NoSlot /\ classes.elements[c].fromObj = NULL)
                   => /\ t.crash = "" /\ ~t.cb
                      /\ t.ret = NULL
                      /\ t.classes = classes
            /\ (c # NoSlot /\ classes.elements[c].toObj = NULL)
                   => /\ n.crash = "" /\ ~n.cb
                      /\ n.ret = NULL
                      /\ n.classes = classes

SameHandles(cl1, cl2, b, className, obj) ==
    /\ prefs_class_find_by_name(cl2, className) = b
    /\ \A h \in HandlesOf(cl1, obj) :
           h[1] = b => /\ h \in HandlesOf(cl2, obj)
                       /\ HandleAt(cl2, h[1], h[2]) = HandleAt(cl1, h[1], h[2])

\* C36: when an object pointer o is registered under two different classes
\* A and B (registered classes: their names are not empty),
\* nft_prefs_obj_unregister(p, A, o), nft_prefs_class_unregister(p, A), and
\* the one after the other, leave the handle of o under B registered and
\* unchanged, and B is still the class its name finds.
C36_OtherClassHandleKept ==
    \A A \in ClassNames \ {NameEmpty}, B \in ClassNames \ {NameEmpty} :
        \A o \in ObjPtrs \ {NULL}, uninit \in UninitSlots(classes, A) :
            LET a == prefs_class_find_by_name(classes, A)
                b == prefs_class_find_by_name(classes, B)
                u == nft_prefs_obj_unregister(classes, A, o, uninit).classes
                k == nft_prefs_class_unregister(classes, A).classes
                uk == nft_prefs_class_unregister(u, A).classes
            IN  (/\ a # NoSlot /\ b # NoSlot /\ a # b
                 /\ o \in ObjectsOf(classes, a)
                 /\ o \in ObjectsOf(classes, b))
                => /\ SameHandles(classes, u, b, B, o)
                   /\ SameHandles(classes, k, b, B, o)
                   /\ SameHandles(classes, uk, b, B, o)
                   /\ o \in ObjectsOf(k, b)
                   /\ o \notin ObjectsOf(k, a)

\* C36 witness: one object is registered under two live classes and class
\* "A" holding its other handle has just been through an unregistration of
\* an object.
C36_Witness ==
    /\ last.op = "nft_prefs_obj_unregister"
    /\ crashed = ""
    /\ \E a \in LiveClasses(classes), b \in LiveClasses(classes) :
           /\ a # b
           /\ classes.elements[a].name # classes.elements[b].name
           /\ \E o \in ObjPtrs \ {NULL} :
                  /\ o \in ObjectsOf(classes, a)
                  /\ o \in ObjectsOf(classes, b)

====
